---- MODULE Spec2Model ----
(***************************************************************************)
(* Fixed-window rate limiter of the BirthdayDeals backend (src/main.py):   *)
(* the process-wide store _rate_store, the decision function               *)
(* check_rate_limit, and the request pipeline made of the "http"           *)
(* middleware and the route handlers.                                      *)
(*                                                                         *)
(* Two specifications share the variables:                                *)
(*   Spec     sequential calls of check_rate_limit with arbitrary          *)
(*            arguments, and a clock;                                      *)
(*   SpecApp  the application: requests of one client on one route going   *)
(*            through rate_limit_middleware and then their handler, two    *)
(*            requests in flight at a time on one event loop.              *)
(***************************************************************************)
EXTENDS Integers, Sequences, FiniteSets, TLC

----------------------------------------------------------------------------
(* Bounds of the exploration *)

MaxTime == 2        \* Spec: the clock runs over 0..MaxTime (seconds)
MaxLimit == 2       \* Spec draws `limit` from 1..MaxLimit
MaxWindow == 2      \* Spec draws `window_seconds` from 1..MaxWindow
MaxRejects == 2     \* the history counts the rejections of a window up to here
AppMaxTime == 1     \* SpecApp: the clock runs over 0..AppMaxTime
MaxInflight == 2    \* SpecApp: requests in flight at a time

----------------------------------------------------------------------------
(* Inputs *)

NoClient == "None"                       \* request.client is None
NoEntry == [count |-> 0, reset |-> -1]   \* _rate_store.get(key) returned None
NoCall == [key |-> "", pass |-> "none", limit |-> 0, window |-> 0, at |-> -1,
           result |-> FALSE]

Hosts == {"10.0.0.1"}
Clients == Hosts \cup {NoClient}
Paths == {"/", "/test"}
Limits == 1..MaxLimit
Windows == 1..MaxWindow
Shapes == Clients \X Paths \X Windows \X Limits   \* the arguments of a call
BaseShape == <<"10.0.0.1", "/", 1, MaxLimit>>

VARIABLES
    rate_store,   \* _rate_store: key -> [count, reset]; DOMAIN = keys present
    now,          \* time.time()
    active,       \* Spec: the calls (client, path, window, limit) in play
    app,          \* SpecApp: the client and the route under load
    reqs,         \* SpecApp: the requests in flight, by slot
    call,         \* history: the latest check_rate_limit call and its result
    win,          \* history: per key, the calls made in the current window
    owner,        \* history: per key, who used the key
    served        \* history: what became of the requests of the application

vars == <<rate_store, now, active, app, reqs, call, win, owner, served>>

----------------------------------------------------------------------------
(* check_rate_limit, src/main.py:32-47 *)

\* An identity that is the text of the missing client.
ClientIp_none(client) == client

\* line 33: ip = request.client.host if request.client else "unknown"
ClientIp(client) == IF client # NoClient THEN client ELSE "unknown"

\* A key that leaves the window length out.
RateKey_no_window(ip, path, window_seconds) == ip \o ":" \o path

\* line 35: key = f"{ip}:{path}:{window_seconds}"
RateKey(ip, path, window_seconds) ==
    ip \o ":" \o path \o ":" \o ToString(window_seconds)

\* line 37: entry = _rate_store.get(key)
Get(s, key) == IF key \in DOMAIN s THEN s[key] ELSE NoEntry

\* A count that starts at 0 instead of 1.
FreshEntry_zero(t, window_seconds) == [count |-> 0, reset |-> t + window_seconds]

\* An entry written without its resetAt.
FreshEntry_no_reset(t, window_seconds) == [count |-> 1]

\* lines 39, 42: {"count": 1, "reset": now + window_seconds}
FreshEntry(t, window_seconds) == [count |-> 1, reset |-> t + window_seconds]

\* _rate_store[key] = e
Put(s, key, e) == [k \in DOMAIN s \cup {key} |-> IF k = key THEN e ELSE s[k]]

\* Variants of the function with one line changed.
check_rate_limit_with(s, client, path, limit, window_seconds, t, variant) ==
    LET key == RateKey(ClientIp(client), path, window_seconds)
        entry == Get(s, key)
        expired == IF variant = "expire_at_reset" THEN t >= entry.reset
                   ELSE t > entry.reset
        full == IF variant = "count_gt_limit" THEN entry.count > limit
                ELSE entry.count >= limit
        renewed == IF variant = "anchor_to_reset"
                   THEN [count |-> 1, reset |-> entry.reset + window_seconds]
                   ELSE FreshEntry(t, window_seconds)
        refused == IF variant = "reject_extends"
                   THEN [s EXCEPT ![key].reset = t + window_seconds]
                   ELSE s
        counted == IF variant = "admit_extends"
                   THEN [s EXCEPT ![key] = [count |-> @.count + 1,
                                            reset |-> t + window_seconds]]
                   ELSE [s EXCEPT ![key].count = @ + 1]
    IN  IF entry = NoEntry
        THEN [store |-> Put(s, key, FreshEntry(t, window_seconds)), result |-> TRUE]
        ELSE IF expired
        THEN [store |-> Put(s, key, renewed), result |-> TRUE]
        ELSE IF full
        THEN [store |-> refused, result |-> FALSE]
        ELSE [store |-> counted, result |-> TRUE]

\* line 44 with > for >=
check_rate_limit_gt(s, client, path, limit, window_seconds, t) ==
    check_rate_limit_with(s, client, path, limit, window_seconds, t, "count_gt_limit")

\* line 41 with >= for >
check_rate_limit_ge(s, client, path, limit, window_seconds, t) ==
    check_rate_limit_with(s, client, path, limit, window_seconds, t, "expire_at_reset")

\* line 42 with the new window anchored to the previous reset
check_rate_limit_drift(s, client, path, limit, window_seconds, t) ==
    check_rate_limit_with(s, client, path, limit, window_seconds, t, "anchor_to_reset")

\* line 45 preceded by a renewal of the window
check_rate_limit_extend(s, client, path, limit, window_seconds, t) ==
    check_rate_limit_with(s, client, path, limit, window_seconds, t, "reject_extends")

\* line 46 followed by a renewal of the window (a sliding window)
check_rate_limit_slide(s, client, path, limit, window_seconds, t) ==
    check_rate_limit_with(s, client, path, limit, window_seconds, t, "admit_extends")

\* the function preceded by a sweep of the expired entries of other keys
check_rate_limit_sweep(s, client, path, limit, window_seconds, t) ==
    LET key == RateKey(ClientIp(client), path, window_seconds)
        kept == {k \in DOMAIN s : k = key \/ t <= s[k].reset}
    IN  check_rate_limit_with([k \in kept |-> s[k]], client, path, limit,
                              window_seconds, t, "none")

\* The function: the store after the call and the value returned.
check_rate_limit(s, client, path, limit, window_seconds, t) ==
    LET key == RateKey(ClientIp(client), path, window_seconds)
        entry == Get(s, key)
    IN  IF entry = NoEntry
        THEN [store |-> Put(s, key, FreshEntry(t, window_seconds)), result |-> TRUE]
        ELSE IF t > entry.reset
        THEN [store |-> Put(s, key, FreshEntry(t, window_seconds)), result |-> TRUE]
        ELSE IF entry.count >= limit
        THEN [store |-> s, result |-> FALSE]
        ELSE [store |-> [s EXCEPT ![key].count = @ + 1], result |-> TRUE]

----------------------------------------------------------------------------
(* History kept beside the program state *)

NoPrev == [start |-> -1, admitted |-> 0, rejected |-> 0, limits |-> {}]
NoWin == [admitted |-> 0, rejected |-> 0, limits |-> {}, start |-> -1, prev |-> NoPrev]

WinOf(w, key) == IF key \in DOMAIN w THEN w[key] ELSE NoWin

Min(a, b) == IF a <= b THEN a ELSE b

\* The window record of `key` after a call made at time t with `limit` that
\* took the store from s to post: a call that creates the entry, or replaces
\* it by one with another resetAt, opens a new record and keeps a summary of
\* the window it replaces.
WinAfter(w, s, post, key, limit, t, result) ==
    LET old == WinOf(w, key)
        rec == IF Get(s, key) = NoEntry
               THEN [NoWin EXCEPT !.admitted = 1, !.limits = {limit}, !.start = t]
               ELSE IF post[key].reset # s[key].reset
               THEN [admitted |-> 1, rejected |-> 0, limits |-> {limit},
                     start |-> t,
                     prev |-> [start |-> old.start, admitted |-> old.admitted,
                               rejected |-> old.rejected, limits |-> old.limits]]
               ELSE IF result
               THEN [old EXCEPT !.admitted = @ + 1, !.limits = @ \cup {limit}]
               ELSE [old EXCEPT !.rejected = Min(@ + 1, MaxRejects),
                                !.limits = @ \cup {limit}]
    IN  [k \in DOMAIN w \cup {key} |-> IF k = key THEN rec ELSE w[k]]

NoOwner == [shapes |-> {}, passes |-> {}]

OwnerAfter(o, key, shape, pass) ==
    LET old == IF key \in DOMAIN o THEN o[key] ELSE NoOwner
        rec == [shapes |-> old.shapes \cup {shape}, passes |-> old.passes \cup {pass}]
    IN  [k \in DOMAIN o \cup {key} |-> IF k = key THEN rec ELSE o[k]]

\* The effect of one call of check_rate_limit, made by `pass`, on the store
\* and on the history.
Limiter(pass, client, path, limit, window_seconds) ==
    LET key == RateKey(ClientIp(client), path, window_seconds)
        r == check_rate_limit(rate_store, client, path, limit, window_seconds, now)
    IN  /\ rate_store' = r.store
        /\ call' = [key |-> key, pass |-> pass, limit |-> limit,
                    window |-> window_seconds, at |-> now, result |-> r.result]
        /\ win' = WinAfter(win, rate_store, r.store, key, limit, now, r.result)
        /\ owner' = OwnerAfter(owner, key,
                               <<ClientIp(client), path, window_seconds>>, pass)

----------------------------------------------------------------------------
(* Spec: sequential calls of check_rate_limit *)

\* No request yet: `passed` counts the requests the middleware let through,
\* `bodies` those whose handler ran its substantive logic, `refused` the 429
\* responses (counted up to MaxRejects).
NoneServed == [passed |-> 0, bodies |-> 0, refused |-> 0]

NoApp == [client |-> NoClient, path |-> "", limit |-> 0, window |-> 0]

Init ==
    /\ rate_store = <<>>
    /\ now = 0
    /\ active \in {{BaseShape, c} : c \in Shapes \ {BaseShape}}
    /\ app = NoApp
    /\ reqs = <<>>
    /\ call = NoCall
    /\ win = <<>>
    /\ owner = <<>>
    /\ served = NoneServed

\* One sequential call of check_rate_limit(request, limit, window_seconds).
Call(c) ==
    /\ Limiter("call", c[1], c[2], c[4], c[3])
    /\ UNCHANGED <<now, active, app, reqs, served>>

\* time.time() moves on between two calls.
Tick ==
    /\ now < MaxTime
    /\ now' = now + 1
    /\ UNCHANGED <<rate_store, active, app, reqs, call, win, owner, served>>

Next ==
    \/ \E c \in active : Call(c)
    \/ Tick

Spec == Init /\ [][Next]_vars

\* FairSpec: the clock keeps advancing (up to MaxTime) and every client
\* keeps calling: a call that would change the state is not put off forever.
FairSpec ==
    /\ Spec
    /\ WF_vars(Tick)
    /\ \A c \in Shapes : WF_vars(c \in active /\ Call(c))

----------------------------------------------------------------------------
(* SpecApp: the request pipeline, src/main.py:49-114 *)

\* line 52: check_rate_limit(request, limit=120, window_seconds=60)
GeneralLimit == 120
GeneralWindow == 60

\* The routes and the limiter pass each handler starts with
\* (lines 61, 67, 73, 79, 93, 113).
Routes ==
    { [path |-> "/",                     limit |-> 5,  window |-> 1],
      [path |-> "/api/health",           limit |-> 10, window |-> 1],
      [path |-> "/api/countries",        limit |-> 20, window |-> 60],
      [path |-> "/api/banners",          limit |-> 60, window |-> 60],
      [path |-> "/api/verify-recaptcha", limit |-> 30, window |-> 60],
      [path |-> "/test",                 limit |-> 10, window |-> 60] }

Slots == 1..MaxInflight

\* A slot with no request in it.
Idle == [pc |-> "idle", mw |-> "none", handler |-> "none", body |-> FALSE,
         response |-> "none"]

Verdict(result) == IF result THEN "admitted" ELSE "rejected"

InitApp ==
    /\ rate_store = <<>>
    /\ now = 0
    /\ active = {}
    /\ app \in {[client |-> c, path |-> r.path, limit |-> r.limit, window |-> r.window] :
                    c \in Clients, r \in Routes}
    /\ reqs = [r \in Slots |-> Idle]
    /\ call = NoCall
    /\ win = <<>>
    /\ owner = <<>>
    /\ served = NoneServed

\* The tally after a step that took a request from `before` to `after`.
ServedAfter(sv, before, after) ==
    [passed  |-> sv.passed + (IF after.pc = "call_next" THEN 1 ELSE 0),
     bodies  |-> sv.bodies + (IF after.body /\ ~before.body THEN 1 ELSE 0),
     refused |-> IF after.response = "429" /\ before.response # "429"
                 THEN Min(sv.refused + 1, MaxRejects) ELSE sv.refused]

\* A request of the client for the route reaches the server.
Arrive(r) ==
    /\ reqs[r].pc = "idle"
    /\ reqs' = [reqs EXCEPT ![r] = [Idle EXCEPT !.pc = "middleware"]]
    /\ UNCHANGED <<rate_store, now, active, app, call, win, owner, served>>

\* A middleware that goes on to call_next(request) after a rejection.
MiddlewareOutcome_pass_through(req, result) ==
    [req EXCEPT !.pc = "call_next", !.mw = Verdict(result)]

\* lines 52-54: what rate_limit_middleware does with the limiter's answer:
\* the 429 response, or call_next(request).
MiddlewareOutcome(req, result) ==
    IF ~result
    THEN [req EXCEPT !.pc = "done", !.mw = "rejected", !.response = "429"]
    ELSE [req EXCEPT !.pc = "call_next", !.mw = "admitted"]

\* lines 50-54, up to the await: the coroutine runs without suspension.
rate_limit_middleware(r) ==
    /\ reqs[r].pc = "middleware"
    /\ Limiter("middleware", app.client, app.path, GeneralLimit, GeneralWindow)
    /\ reqs' = [reqs EXCEPT ![r] = MiddlewareOutcome(reqs[r], call'.result)]
    /\ served' = ServedAfter(served, reqs[r], reqs'[r])
    /\ UNCHANGED <<now, active, app>>

\* What a handler does with the answer of its own limiter pass: the 429
\* response, or its substantive logic and the response that logic produces.
HandlerOutcome(req, result) ==
    IF ~result
    THEN [req EXCEPT !.pc = "done", !.handler = "rejected", !.response = "429"]
    ELSE [req EXCEPT !.pc = "done", !.handler = "admitted", !.body = TRUE,
                     !.response = "handler"]

\* The route's handler (read_root, health, get_countries, get_banners,
\* verify_recaptcha, test_database): no await in any of them.
Handler(r) ==
    /\ reqs[r].pc = "call_next"
    /\ Limiter("handler", app.client, app.path, app.limit, app.window)
    /\ reqs' = [reqs EXCEPT ![r] = HandlerOutcome(reqs[r], call'.result)]
    /\ served' = ServedAfter(served, reqs[r], reqs'[r])
    /\ UNCHANGED <<now, active, app>>

\* The response is sent; the slot is free for the next request.
Respond(r) ==
    /\ reqs[r].pc = "done"
    /\ reqs' = [reqs EXCEPT ![r] = Idle]
    /\ UNCHANGED <<rate_store, now, active, app, call, win, owner, served>>

TickApp ==
    /\ now < AppMaxTime
    /\ now' = now + 1
    /\ UNCHANGED <<rate_store, active, app, reqs, call, win, owner, served>>

NextApp ==
    \/ \E r \in Slots : Arrive(r)
    \/ \E r \in Slots : rate_limit_middleware(r)
    \/ \E r \in Slots : Handler(r)
    \/ \E r \in Slots : Respond(r)
    \/ TickApp

SpecApp == InitApp /\ [][NextApp]_vars

\* SpecSeq: the application serving one request at a time.
NextSeq ==
    \/ Arrive(1)
    \/ rate_limit_middleware(1)
    \/ Handler(1)
    \/ Respond(1)
    \/ TickApp

SpecSeq == InitApp /\ [][NextSeq]_vars

----------------------------------------------------------------------------
(* Properties of check_rate_limit under sequential use (Spec) *)

\* A step that is a call of check_rate_limit: it leaves a new record of the
\* latest call or adds to the history of a window (the one call that does
\* neither repeats the latest call, a rejection, at the same time).
IsCall == call' # call \/ win' # win

\* The identity, path and window length a key was computed from.
ShapeOf(k) == CHOOSE sh \in owner[k].shapes : TRUE

\* The window of key k has only seen calls with limit N.
FixedLimit(k, N) == k \in DOMAIN win /\ win[k].limits = {N}

\* The entry of key k is current at time t.
Current(k, t) == k \in DOMAIN rate_store /\ t <= rate_store[k].reset

\* What a further call on key k with limit N would return at time t.
WouldAdmit(k, N, t) ==
    check_rate_limit(rate_store, ShapeOf(k)[1], ShapeOf(k)[2], N, ShapeOf(k)[3], t).result

\* C1 - Window exhaustion: for a key called sequentially with one limit N
\* inside one window, the calls are admitted while fewer than N have been
\* admitted, no call is rejected before N are admitted, never more than N
\* are admitted, and once N are admitted the next call in the window is
\* rejected: exactly the first N calls return True and call N+1 returns False.
C1_WindowExhaustion ==
    \A k \in DOMAIN win : \A N \in win[k].limits :
        FixedLimit(k, N) =>
            /\ win[k].admitted <= N
            /\ win[k].rejected > 0 => win[k].admitted = N
            /\ rate_store[k].count = win[k].admitted
            /\ Current(k, now) => (WouldAdmit(k, N, now) <=> win[k].admitted < N)

C1_Witness ==
    \E k \in DOMAIN win :
        /\ FixedLimit(k, 2)
        /\ win[k].admitted = 2
        /\ win[k].rejected = 1
        /\ win[k].prev = NoPrev
        /\ call.key = k /\ ~call.result

\* C2 - Monotonic rejection: for a key always called with the same limit,
\* once `limit` calls have been admitted in a window, every call on the key
\* with now <= resetAt is rejected; a call is admitted again only when
\* now > resetAt.
C2_MonotonicRejection ==
    [][\A k \in DOMAIN rate_store :
          ( /\ IsCall
            /\ call'.key = k
            /\ FixedLimit(k, call'.limit)
            /\ win[k].admitted = call'.limit
            /\ now <= rate_store[k].reset )
          => ~call'.result]_vars

C2_Witness ==
    \E k \in DOMAIN win :
        /\ FixedLimit(k, 1)
        /\ win[k].rejected = 2
        /\ call.key = k /\ ~call.result
        /\ call.at = rate_store[k].reset
        /\ call.at > win[k].start

\* C3 - Window reset: a call that finds now > resetAt is admitted and replaces
\* the entry by count = 1, resetAt = now + windowSeconds, whatever the count
\* was and however many calls were rejected in the window that ended.
C3_WindowReset ==
    [][\A k \in DOMAIN rate_store :
          (IsCall /\ call'.key = k /\ now > rate_store[k].reset)
          => /\ call'.result
             /\ rate_store'[k] = [count |-> 1, reset |-> now + call'.window]]_vars

C3_Witness ==
    \E k \in DOMAIN win :
        /\ call.key = k /\ call.result
        /\ win[k].prev.admitted = 2
        /\ win[k].prev.rejected >= 1
        /\ call.at > win[k].prev.start + call.window
        /\ rate_store[k] = [count |-> 1, reset |-> call.at + call.window]
        /\ rate_store[k].reset # win[k].prev.start + 2 * call.window

\* C4 - Rejections are free: a call that returns False leaves the whole store
\* as it was: no count is incremented and no resetAt is changed. (A step
\* after which the latest call is a rejection is that rejected call or makes
\* no call at all.)
C4_RejectionsAreFree ==
    [][~call'.result => rate_store' = rate_store]_vars

C4_Witness ==
    /\ call # NoCall
    /\ ~call.result
    /\ rate_store[call.key].count = call.limit
    /\ call.at < rate_store[call.key].reset
    /\ Cardinality(DOMAIN rate_store) = 2

\* The key a call shape (client, path, window, limit) is counted under.
KeyOfShape(c) == RateKey(ClientIp(c[1]), c[2], c[3])

\* C5 - Key independence: two calls use the same entry if and only if their
\* client identity, path and window length are equal, and a call leaves the
\* entry of every other key unchanged.
C5_KeyIndependence ==
    /\ [](/\ \A k \in DOMAIN owner : Cardinality(owner[k].shapes) = 1
          /\ \A c1 \in active, c2 \in active :
                KeyOfShape(c1) = KeyOfShape(c2)
                    <=> <<ClientIp(c1[1]), c1[2], c1[3]>> = <<ClientIp(c2[1]), c2[2], c2[3]>>)
    /\ [][\A k \in DOMAIN rate_store :
              k # call'.key => /\ k \in DOMAIN rate_store'
                               /\ rate_store'[k] = rate_store[k]]_vars

C5_Witness ==
    \E k1 \in DOMAIN rate_store, k2 \in DOMAIN rate_store :
        /\ k1 # k2
        /\ ShapeOf(k1)[1] = ShapeOf(k2)[1]
        /\ ShapeOf(k1)[2] = ShapeOf(k2)[2]
        /\ ShapeOf(k1)[3] # ShapeOf(k2)[3]
        /\ rate_store[k1].count = 2
        /\ rate_store[k2].count = 1
        /\ win[k2].rejected >= 1

\* C10 - First-request admission: a call on a key with no entry returns True
\* and creates the entry count = 1, resetAt = now + windowSeconds, whatever
\* the limit.
C10_FirstRequestAdmission ==
    [][(IsCall /\ call'.key \notin DOMAIN rate_store)
          => /\ call'.result
             /\ call'.key \in DOMAIN rate_store'
             /\ rate_store'[call'.key] = [count |-> 1, reset |-> now + call'.window]]_vars

C10_Witness ==
    /\ call # NoCall
    /\ call.result
    /\ call.at > 0
    /\ win[call.key].prev = NoPrev
    /\ win[call.key].admitted = 1
    /\ win[call.key].start = call.at
    /\ rate_store[call.key] = [count |-> 1, reset |-> call.at + call.window]

\* C9 (as claimed) - Boundary burst: once the N admissions of a window are
\* used up, N more can be admitted so that all 2N lie within a span shorter
\* than windowSeconds: the next admission can come less than windowSeconds
\* after the first admission of the exhausted window.
C9_BurstWithinWindow ==
    \A k \in DOMAIN win : \A N \in win[k].limits :
        (FixedLimit(k, N) /\ win[k].admitted = N)
        => \E t \in now..(MaxTime + MaxWindow + 1) :
              /\ WouldAdmit(k, N, t)
              /\ t - win[k].start < ShapeOf(k)[3]

\* C9 (amended) - Boundary burst: when N calls were admitted in one window of
\* a key and N more in the next, the first admission of the second window is
\* more than windowSeconds after the first admission of the first one: the 2N
\* admissions span more than windowSeconds (and can span just one tick more).
C9_BurstSpansWindow ==
    \A k \in DOMAIN win : \A N \in win[k].limits :
        ( /\ FixedLimit(k, N)
          /\ win[k].prev.limits = {N}
          /\ win[k].prev.admitted = N
          /\ win[k].admitted = N )
        => win[k].start - win[k].prev.start > ShapeOf(k)[3]

C9_Witness ==
    \E k \in DOMAIN win :
        /\ FixedLimit(k, 2)
        /\ win[k].prev.limits = {2}
        /\ win[k].prev.admitted = 2
        /\ win[k].admitted = 2
        /\ call.key = k /\ call.result
        /\ call.at = win[k].prev.start + ShapeOf(k)[3] + 1

----------------------------------------------------------------------------
(* Properties of the request pipeline (SpecApp) *)

\* C6 (as claimed) - Two-tier separation: no key is used both by the
\* middleware's limiter pass and by a handler's limiter pass.
C6_TwoTierSeparation ==
    \A k \in DOMAIN owner : ~({"middleware", "handler"} \subseteq owner[k].passes)

\* C7 - Pipeline ordering: a request reaches call_next and its handler only
\* after the middleware pass admitted it; a request the middleware rejects is
\* answered 429 and its handler, limiter pass included, never runs; the
\* handler's substantive logic runs only for requests admitted by both passes.
C7_PipelineOrdering ==
    /\ [](\A r \in DOMAIN reqs :
            /\ reqs[r].pc = "call_next" => reqs[r].mw = "admitted"
            /\ reqs[r].handler # "none" => reqs[r].mw = "admitted"
            /\ reqs[r].mw = "rejected" => /\ reqs[r].pc = "done"
                                         /\ reqs[r].response = "429"
                                         /\ reqs[r].handler = "none"
                                         /\ ~reqs[r].body
            /\ reqs[r].handler = "rejected" => reqs[r].response = "429" /\ ~reqs[r].body
            /\ reqs[r].body => reqs[r].mw = "admitted" /\ reqs[r].handler = "admitted")
    /\ [][(IsCall /\ call'.pass = "handler")
             => \E r \in DOMAIN reqs : /\ reqs[r].pc = "call_next"
                                       /\ reqs[r].mw = "admitted"
                                       /\ reqs'[r].handler = Verdict(call'.result)]_vars

C7_Witness ==
    \E r \in DOMAIN reqs :
        /\ reqs[r].mw = "rejected"
        /\ reqs[r].response = "429"
        /\ call.pass = "middleware" /\ ~call.result
        /\ rate_store[call.key].count = GeneralLimit

\* The limiter pass a request in flight is about to make.
PassLimit(r) == IF reqs[r].pc = "middleware" THEN GeneralLimit ELSE app.limit
PassWindow(r) == IF reqs[r].pc = "middleware" THEN GeneralWindow ELSE app.window
PassKey(r) == RateKey(ClientIp(app.client), app.path, PassWindow(r))
PassResult(s, r) ==
    check_rate_limit(s, app.client, app.path, PassLimit(r), PassWindow(r), now)

\* Two concurrent requests are about to make the same limiter pass on a key
\* whose current window has one admission left.
LastSlot(r1, r2) ==
    /\ r1 # r2
    /\ reqs[r1].pc \in {"middleware", "call_next"}
    /\ reqs[r2].pc = reqs[r1].pc
    /\ Current(PassKey(r1), now)
    /\ rate_store[PassKey(r1)].count = PassLimit(r1) - 1

\* C8 (as claimed) - the race: two concurrent requests on the same key that
\* both find count < limit can both be admitted, so the window admits more
\* than its limit.
C8_RaceAdmitsBoth ==
    \A r1 \in DOMAIN reqs, r2 \in DOMAIN reqs :
        LastSlot(r1, r2)
        => /\ PassResult(rate_store, r1).result
           /\ PassResult(PassResult(rate_store, r1).store, r2).result

\* C8 (amended) - no race: a limiter pass reads, checks and writes in one
\* step of the event loop; of two concurrent requests about to make the same
\* pass on a key with one admission left, the one that runs first is
\* admitted and writes count = limit, and the other can then only be rejected.
C8_AtomicPass ==
    [][\A r1 \in DOMAIN reqs, r2 \in DOMAIN reqs :
          (LastSlot(r1, r2) /\ reqs'[r1] # reqs[r1])
          => /\ call'.result
             /\ rate_store'[PassKey(r1)].count = PassLimit(r1)
             /\ ~PassResult(rate_store', r2).result]_vars

C8_Witness ==
    /\ MaxInflight >= 2
    /\ LastSlot(1, 2)
    /\ reqs[1].pc = "call_next"
    /\ app.window # GeneralWindow

----------------------------------------------------------------------------
(* Invariants of the store (Spec) *)

\* C11 - Count invariant: every entry of the store has count >= 1, and a key
\* enters the store only in a step that is an admitted call on that key.
C11_CountInvariant ==
    /\ [](\A k \in DOMAIN rate_store : rate_store[k].count >= 1)
    /\ [][\A k \in DOMAIN rate_store' :
              k \notin DOMAIN rate_store
              => /\ IsCall
                 /\ call'.key = k
                 /\ call'.result
                 /\ rate_store'[k].count = 1]_vars

C11_Witness ==
    \E k1 \in DOMAIN rate_store, k2 \in DOMAIN rate_store :
        /\ k1 # k2
        /\ rate_store[k1].count = 1
        /\ win[k1].rejected = MaxRejects
        /\ rate_store[k2].count = 2
        /\ call.key = k2 /\ call.result

\* C12 - resetAt stability: the resetAt of an entry changes only in a call on
\* its key that finds now > resetAt and replaces the entry; a call that
\* increments the count and a call that is rejected leave it unchanged; and
\* every resetAt is the time of the call that created the entry plus the
\* window length of the key.
C12_ResetStability ==
    /\ [](\A k \in DOMAIN rate_store :
             rate_store[k].reset = win[k].start + ShapeOf(k)[3])
    /\ [][\A k \in DOMAIN rate_store :
              rate_store'[k].reset # rate_store[k].reset
              => /\ call'.key = k
                 /\ call'.result
                 /\ now > rate_store[k].reset
                 /\ rate_store'[k] = [count |-> 1, reset |-> now + call'.window]]_vars

C12_Witness ==
    \E k \in DOMAIN rate_store :
        /\ rate_store[k].count = 2
        /\ win[k].rejected >= 1
        /\ call.key = k /\ ~call.result
        /\ call.at > win[k].start
        /\ rate_store[k].reset = win[k].start + call.window

\* C13 - No eviction: a key that is in the store stays in the store; the set
\* of keys only grows.
C13_NoEviction ==
    [][DOMAIN rate_store \subseteq DOMAIN rate_store']_vars

C13_Witness ==
    \E k1 \in DOMAIN rate_store, k2 \in DOMAIN rate_store :
        /\ k1 # k2
        /\ now > rate_store[k1].reset
        /\ call.key = k2
        /\ call.at > rate_store[k1].reset

\* C14 - Fallback identity: a call whose request has no client address is
\* counted under the identity "unknown": the key of its path and window
\* length is "unknown:<path>:<window>", and that one entry counts every
\* admitted call of such requests.
C14_FallbackIdentity ==
    /\ [](\A c \in active :
             c[1] = NoClient
             => LET k == "unknown" \o ":" \o c[2] \o ":" \o ToString(c[3])
                IN  /\ KeyOfShape(c) = k
                    /\ k \in DOMAIN rate_store
                       => /\ owner[k].shapes = {<<"unknown", c[2], c[3]>>}
                          /\ rate_store[k].count = win[k].admitted)
    /\ [](\A k \in DOMAIN rate_store : \E c \in active : k = KeyOfShape(c))
    /\ [][\A c \in active :
              (c[1] = NoClient /\ Call(c))
              => call'.key = "unknown" \o ":" \o c[2] \o ":" \o ToString(c[3])]_vars

C14_Witness ==
    \E c \in active :
        /\ c[1] = NoClient
        /\ c[4] = 2
        /\ KeyOfShape(c) \in DOMAIN rate_store
        /\ rate_store[KeyOfShape(c)].count = 2
        /\ call.key = KeyOfShape(c)
        /\ ~call.result

\* C17 - Expiry boundary is strict: a call at exactly now = resetAt belongs to
\* the current window: it is admitted with an increment if count < limit and
\* rejected if count >= limit, and it does not replace the entry; an entry is
\* replaced only by a call with now > resetAt.
C17_StrictExpiry ==
    [][\A k \in DOMAIN rate_store :
          /\ (IsCall /\ call'.key = k /\ now = rate_store[k].reset)
             => /\ rate_store'[k].reset = rate_store[k].reset
                /\ rate_store[k].count < call'.limit
                   => /\ call'.result
                      /\ rate_store'[k].count = rate_store[k].count + 1
                /\ rate_store[k].count >= call'.limit
                   => /\ ~call'.result
                      /\ rate_store'[k] = rate_store[k]
          /\ (IsCall /\ call'.key = k /\ win'[k].start # win[k].start)
             => now > rate_store[k].reset]_vars

C17_Witness ==
    \E k \in DOMAIN rate_store :
        /\ call.key = k /\ call.result
        /\ call.at = rate_store[k].reset
        /\ rate_store[k].count = 2
        /\ win[k].start < call.at

\* C20 - Totality and consistency under sequential use: every call returns
\* True or False, and after any sequence of calls every key that was called
\* has its one entry in the store, a record of exactly a count and a resetAt,
\* with 1 <= count and resetAt the end of a window that began at or before now.
C20_TotalAndConsistent ==
    /\ call.result \in BOOLEAN
    /\ DOMAIN rate_store = DOMAIN owner
    /\ \A k \in DOMAIN rate_store :
          /\ DOMAIN rate_store[k] = {"count", "reset"}
          /\ rate_store[k].count \in 1..MaxLimit
          /\ rate_store[k].reset \in 1..(now + ShapeOf(k)[3])

C20_Witness ==
    /\ Cardinality(DOMAIN rate_store) = 2
    /\ \A k \in DOMAIN rate_store : rate_store[k].count = 2 /\ win[k].prev # NoPrev
    /\ ~call.result

----------------------------------------------------------------------------
(* Limits of the application as deployed (SpecApp, SpecSeq) *)

\* No window of the store has been replaced: the requests so far fall in one
\* window of every key.
SingleWindow == \A k \in DOMAIN win : win[k].prev = NoPrev

\* C15 (as claimed) - Handler limit is the effective limit: when one client
\* sends requests one at a time to a route, within one window and from an
\* empty store, the number of requests that reached the handler's
\* substantive logic is at most the handler's limit, and is exactly that
\* limit once a request was answered 429.
C15_HandlerLimitEffective ==
    SingleWindow
    => /\ served.bodies <= app.limit
       /\ served.refused >= 1 => served.bodies = app.limit

\* C16 (as claimed) - General limit: when one client sends requests one at a
\* time to one path, within one 60-second window and from an empty store, at
\* most 120 requests pass the middleware, and exactly 120 have passed when
\* the middleware rejects one.
C16_GeneralLimit ==
    SingleWindow
    => /\ served.passed <= GeneralLimit
       /\ \A r \in DOMAIN reqs :
             reqs[r].mw = "rejected" => served.passed = GeneralLimit

\* C18 - No over-admission as deployed: with requests interleaving at the
\* await of call_next only, a window of a key that is always called with
\* the same limit N never has more than N admitted calls.
C18_NoOverAdmission ==
    \A k \in DOMAIN win : \A N \in win[k].limits :
        FixedLimit(k, N) => win[k].admitted <= N /\ rate_store[k].count <= N

C18_Witness ==
    /\ MaxInflight >= 2
    /\ app.window # GeneralWindow
    /\ reqs[1].handler = "admitted"
    /\ reqs[2].handler = "rejected"
    /\ call.pass = "handler"
    /\ FixedLimit(call.key, app.limit)
    /\ win[call.key].admitted = app.limit

----------------------------------------------------------------------------
(* Liveness (FairSpec) *)

\* The keys a client is locked out of: the current window of the key has
\* rejected a call, and the clock can still pass its resetAt.
LockedOut ==
    {k \in DOMAIN win : win[k].rejected >= 1 /\ rate_store[k].reset < MaxTime}

\* C19 - No permanent lock-out: if time keeps advancing and the clients keep
\* calling, then after a rejection on a key a later call on that key is
\* admitted: every lock-out ends, it ends by an admitted call on the key made
\* at now > resetAt, the call that finds now > resetAt is admitted, and a
\* rejected call leaves resetAt where it was.
C19_NoPermanentLockOut ==
    /\ []<>(LockedOut = {})
    /\ [][\A k \in LockedOut :
             k \notin LockedOut'
             => call'.key = k /\ call'.result /\ now > rate_store[k].reset]_vars
    /\ [][\A k \in DOMAIN rate_store :
             /\ (call'.key = k /\ call' # call /\ now > rate_store[k].reset)
                => call'.result
             /\ (call'.key = k /\ ~call'.result)
                => rate_store'[k].reset = rate_store[k].reset]_vars

C19_Witness ==
    \E k \in DOMAIN win :
        /\ call.key = k /\ call.result
        /\ win[k].prev # NoPrev
        /\ win[k].prev.limits = {1}
        /\ win[k].prev.admitted = 1
        /\ win[k].prev.rejected >= 1
        /\ win[k].admitted = 1
        /\ call.at > win[k].prev.start + call.window
        /\ rate_store[k].reset = call.at + call.window

====
